---- MODULE Spec2Model ----
(***************************************************************************)
(* State-machine model of src/src/App.js (InventoryApp): the product list  *)
(* and its copy in localStorage, the draft (currentProduct), the decoder   *)
(* callback registered by startCamera together with the render values it   *)
(* closed over, and the name lookups that are in flight.                   *)
(*                                                                         *)
(* A React event handler reads the state of the render that created it.    *)
(* Handlers bound in JSX are re-created on every render and therefore read *)
(* the current state; handleScanSuccess is handed to the decoder once, by  *)
(* startCamera, and an async handler resumes after its await with the      *)
(* values of the render in which it started.  Both are modelled by         *)
(* explicit captures (scanCb, the entries of pending).                     *)
(***************************************************************************)
EXTENDS Integers, Sequences, FiniteSets, TLC

\* ---------------------------------------------------------------- bounds
MaxProducts == 3      \* the list is not grown beyond this many records
MaxPending  == 2      \* lookups in flight at once
MaxTicks    == 3      \* half-window clock steps after start
MaxOps      == 6      \* handler runs explored after startup
MaxDecoders == 2      \* decoder instances referred to at once
MaxCalls    == 2      \* startCamera / stopCamera runs suspended at once

\* ------------------------------------------------------------- constants
DebounceWindow == 1000
NumMethods     == 3   \* cameraAccessMethods.length

\* -------------------------------------------------------------- universes
Codes      == {"A", "B"}                 \* texts the decoder can deliver
\* a text with a blank in front, as it can be typed into a text field
Padded(text) == " " \o text

TypedCodes == Codes \cup {""}            \* values of the manual code field

\* every kind of text the field takes: line 598 stores e.target.value as typed
TypedTexts == TypedCodes \cup {Padded(""), Padded("A")}
ApiKeys    == {"", "k"}
Expiries   == {"", "2025-01-01"}
\* what is typed into the quantity field, character by character
QuantityTexts == { <<"1">>, <<"2">> }

\* every kind of text the field can be given: none, zero, below zero, above
\* nine, letters
TypedQuantityTexts ==
    QuantityTexts \cup { <<>>, <<"0">>, <<"-", "1">>, <<"1", "2">>, <<"a", "b">> }
TypedNames == {"typed name"}
Responses  == {"hit", "networkError"}    \* outcomes of the remote call drawn in Spec

VARIABLES
    phase,            \* "mounted" | "loadRan" | "saveRan" | "running" | "crashed"
    storage,          \* localStorage['inventoryProducts']
    queued,           \* setProducts update queued by the load effect, <<>> if none
    products,         \* useState products
    currentProduct,   \* useState currentProduct (the draft)
    message,          \* useState message (which template was set last)
    lastScanTime,     \* useState lastScanTime
    apiKey,           \* useState apiKey
    scanning,         \* useState scanning
    scanCb,           \* the handleScanSuccess closure the decoder holds
    pending,          \* handlers suspended in `await fetchProductName(..)`
    clock,            \* Date.now()
    lastAcceptedCode, \* history: decodedText of the last accepted decoder event
    storedKey,        \* localStorage['janLookupApiKey']
    download,         \* the file handed to the browser by exportCSV, NoDownload if none
    cameraError,      \* useState cameraError
    scannerRef,       \* scannerRef.current: 0 for null, else a decoder instance
    cameraHeld,       \* the decoder instances whose session holds the camera
    cameraCalls,      \* startCamera / stopCamera runs suspended at an await
    libraryLoaded,    \* the module-level Html5Qrcode is defined
    fetchCall,        \* one call of fetchProductName: its inputs and its completion
    ops               \* history: handler runs since the component mounted

\* the program's state, and all variables
camvars == <<cameraError, scannerRef, cameraHeld, cameraCalls, libraryLoaded>>

iovars == <<storedKey, download, fetchCall>>

pvars == <<phase, storage, queued, products, currentProduct, message,
           lastScanTime, apiKey, scanning, scanCb, pending, clock,
           lastAcceptedCode, camvars, iovars>>

vars == <<pvars, ops>>

\* ------------------------------------------------------------ data model
EmptyProduct ==
    [janCode |-> "", productName |-> "", quantity |-> 1,
     expiryDate |-> "", scannedAt |-> ""]

MsgWelcome   == "welcome"
MsgScanFirst == "scan a product first"
MsgEnterCode == "enter a JAN code"
MsgSearching == "read; searching name"
MsgDuplicate == "warning: already registered"
MsgFound     == "name found; enter quantity"
MsgUpdated   == "updated"
MsgAdded     == "added"
MsgDeleted   == "deleted"
MsgCameraOn  == "camera started"
MsgCameraOff == "camera stopped"
MsgPreparing == "preparing camera"
MsgNoData    == "no data to export"
MsgExported  == "CSV exported"

\* new Date().toISOString() at time t
ToISOString(t) == "T" \o ToString(t)

\* ---------------------------------------------------- JSON (de)serialising
\* The stored text is modelled by its kind and, for an array, one row of
\* field values per record.  "corrupt" is a text JSON.parse rejects;
\* "nonlist" is a text that parses to a value with no usable length and
\* map (null, an object, a number).
Absent   == [kind |-> "absent",  rows |-> <<>>]
Corrupt  == [kind |-> "corrupt", rows |-> <<>>]
NonList  == [kind |-> "nonlist", rows |-> <<>>]

Stringify(prods) ==
    [kind |-> "array",
     rows |-> [i \in 1..Len(prods) |->
                 <<prods[i].janCode, prods[i].productName, prods[i].quantity,
                   prods[i].expiryDate, prods[i].scannedAt>>]]

ParseRows(rows) ==
    [i \in 1..Len(rows) |->
        [janCode |-> rows[i][1], productName |-> rows[i][2],
         quantity |-> rows[i][3], expiryDate |-> rows[i][4],
         scannedAt |-> rows[i][5]]]

\* useEffect(save), lines 419-421: what is written under the key after a
\* setProducts that replaced the list `old` by the list `new`
SaveEffectStale(old, new) == Stringify(old)

SaveEffect(old, new) == Stringify(new)

\* --------------------------------------------------------- quantity field
DigitChars == <<"0", "1", "2", "3", "4", "5", "6", "7", "8", "9">>

IsDigit(ch) == \E d \in 1..Len(DigitChars) : DigitChars[d] = ch

DigitValue(ch) == (CHOOSE d \in 1..Len(DigitChars) : DigitChars[d] = ch) - 1

\* the value of an <input type="number"> (line 639): the text typed when it
\* is a number, the empty text otherwise
NumberInputValue(typed) ==
    LET digits == IF Len(typed) > 0 /\ typed[1] = "-" THEN Tail(typed) ELSE typed
    IN  IF Len(digits) > 0 /\ \A i \in 1..Len(digits) : IsDigit(digits[i])
        THEN typed
        ELSE <<>>

NaN == [nan |-> TRUE, value |-> 0]

\* parseInt(text): an optional sign, then the longest run of digits; NaN
\* when there is no digit
ParseInt(text) ==
    LET neg    == Len(text) > 0 /\ text[1] = "-"
        digits == IF neg THEN Tail(text) ELSE text
        run    == CHOOSE n \in 0..Len(digits) :
                     /\ \A i \in 1..n : IsDigit(digits[i])
                     /\ n < Len(digits) => ~IsDigit(digits[n + 1])
        V[n \in 0..Len(digits)] ==
            IF n = 0 THEN 0 ELSE 10 * V[n - 1] + DigitValue(digits[n])
    IN  IF run = 0 THEN NaN
        ELSE [nan |-> FALSE, value |-> IF neg THEN 0 - V[run] ELSE V[run]]

\* `parseInt(e.target.value) || 1`, line 642: NaN and 0 are falsy
OrOne(parsed) == IF parsed.nan \/ parsed.value = 0 THEN 1 ELSE parsed.value

\* ------------------------------------------------------- list operations
\* products.findIndex(p => p.janCode === code), 1-based, 0 when absent
FindIndex(prods, code) ==
    IF \E i \in 1..Len(prods) : prods[i].janCode = code
    THEN CHOOSE i \in 1..Len(prods) :
            /\ prods[i].janCode = code
            /\ \A j \in 1..(i - 1) : prods[j].janCode # code
    ELSE 0

\* products.filter((_, index) => index !== indexToDelete), 1-based
FilterOutFirst(prods, idx) ==
    IF Len(prods) = 0 THEN prods ELSE Tail(prods)

FilterOut(prods, idx) ==
    LET keep == {i \in 1..Len(prods) : i # idx}
        F[n \in 0..Len(prods)] ==
            IF n = 0 THEN <<>>
            ELSE IF n \in keep THEN Append(F[n - 1], prods[n]) ELSE F[n - 1]
    IN  F[Len(prods)]

\* the guard of addProduct, line 332
InvalidDraftNever(draft) == FALSE

InvalidDraft(draft) == draft.janCode = ""

\* the list addProduct hands to setProducts (lines 338-352)
UpsertAlwaysAppend(prods, draft, confirmed) == Append(prods, draft)

UpsertReplaceFirst(prods, draft, confirmed) ==
    IF FindIndex(prods, draft.janCode) > 0
    THEN IF confirmed THEN [prods EXCEPT ![1] = draft] ELSE prods
    ELSE Append(prods, draft)

UpsertPrepend(prods, draft, confirmed) ==
    LET dup == FindIndex(prods, draft.janCode)
    IN  IF dup > 0
        THEN IF confirmed THEN [prods EXCEPT ![dup] = draft] ELSE prods
        ELSE <<draft>> \o prods

UpsertIgnoresAnswer(prods, draft, confirmed) ==
    LET dup == FindIndex(prods, draft.janCode)
    IN  IF dup > 0 THEN [prods EXCEPT ![dup] = draft] ELSE Append(prods, draft)

Upsert(prods, draft, confirmed) ==
    LET dup == FindIndex(prods, draft.janCode)
    IN  IF dup > 0
        THEN IF confirmed THEN [prods EXCEPT ![dup] = draft] ELSE prods
        ELSE Append(prods, draft)

\* ------------------------------------------------------------- CSV export
\* A text is modelled as the sequence of its pieces: the values put into it
\* and the separators between them.  A value is one piece, except that a
\* line break inside a value is a piece of its own.
LineBreak == "\n"

Quote == "\""

\* a product name with a line break inside (itemName is any JSON string)
TwoLineName == "Item" \o LineBreak \o "A"

Pieces(value) ==
    IF value = TwoLineName THEN <<"Item", LineBreak, "A">> ELSE <<value>>

\* Array.prototype.join(sep) of texts
Join(texts, sep) ==
    LET F[n \in 0..Len(texts)] ==
            IF n = 0 THEN <<>>
            ELSE IF n = 1 THEN texts[1]
            ELSE F[n - 1] \o <<sep>> \o texts[n]
    IN  F[Len(texts)]

\* headers, line 372
CsvHeaders ==
    << <<"JAN code">>, <<"name">>, <<"quantity">>, <<"expiry">>,
       <<"scanned at">> >>

\* one element of products.map(..), lines 377-383
CsvRowNameFirst(product) ==
    Join(<< <<Quote>> \o Pieces(product.productName) \o <<Quote>>,
            Pieces(product.janCode),
            <<ToString(product.quantity)>>,
            Pieces(product.expiryDate),
            Pieces(product.scannedAt) >>, ",")

CsvRow(product) ==
    Join(<< Pieces(product.janCode),
            <<Quote>> \o Pieces(product.productName) \o <<Quote>>,
            <<ToString(product.quantity)>>,
            Pieces(product.expiryDate),
            Pieces(product.scannedAt) >>, ",")

\* csvContent, lines 375-384
CsvContent(prods) ==
    Join(<<Join(CsvHeaders, ",")>> \o [i \in 1..Len(prods) |-> CsvRow(prods[i])],
         LineBreak)

\* the bytes put in front of the text, line 387
Bom == <<239, 187, 191>>

\* ------------------------------------------------------------ name lookup
\* fetchProductName, lines 76-102: what the awaited promise resolves to.
\* With no key it resolves without a request (line 77-79).
UnsetPlaceholder(code) == "API key unset (" \o code \o ")"

Outcomes ==
    {"hit", "emptyName", "noMatch", "noFields", "httpError", "networkError",
     "badJson"}

\* The try block, lines 82-96: the text it returns, or the message of the
\* error thrown in it (fetch rejected, line 85; status not ok, line 88;
\* response.json() rejected, line 91).
TryBlock(code, outcome) ==
    CASE outcome = "networkError" -> [threw |-> TRUE, text |-> "fetch"]
      [] outcome = "httpError"    -> [threw |-> TRUE, text |-> "status"]
      [] outcome = "badJson"      -> [threw |-> TRUE, text |-> "json"]
      [] outcome = "hit"          -> [threw |-> FALSE, text |-> "Item " \o code]
      [] outcome = "emptyName"    ->
            [threw |-> FALSE, text |-> "name not registered(" \o code \o ")"]
      [] OTHER                    ->
            [threw |-> FALSE, text |-> "no product info(" \o code \o ")"]

\* the catch block, lines 97-100
CatchRethrows(code, errorMessage) == [raised |-> TRUE, value |-> errorMessage]

Catch(code, errorMessage) ==
    [raised |-> FALSE,
     value |-> "search error(" \o code \o "): " \o errorMessage]

\* fetchProductName(code) called while the key is `key` and the remote call,
\* if made, ends in `outcome`: how it completes, and whether fetch was called
FetchProductName(key, code, outcome) ==
    IF key = ""
    THEN [raised |-> FALSE, value |-> UnsetPlaceholder(code),
          requested |-> FALSE]
    ELSE LET try == TryBlock(code, outcome)
             end == IF try.threw
                    THEN Catch(code, try.text)
                    ELSE [raised |-> FALSE, value |-> try.text]
         IN  [raised |-> end.raised, value |-> end.value, requested |-> TRUE]

\* what the promise resolves to after a request
ResponseName(code, outcome) == FetchProductName("k", code, outcome).value

\* products.some(product => product.janCode === code) on captured codes
IsDuplicate(codes, code) == \E i \in 1..Len(codes) : codes[i] = code

CodesOf(prods) == [i \in 1..Len(prods) |-> prods[i].janCode]

\* setCurrentProduct after the await in handleScanSuccess, lines 280-285
ApplyScanResultKeepsCode(base, code, name, t) ==
    [base EXCEPT !.productName = name, !.scannedAt = ToISOString(t)]

ApplyScanResult(base, code, name, t) ==
    [base EXCEPT !.janCode = code, !.productName = name,
                 !.scannedAt = ToISOString(t)]

\* setCurrentProduct after the await in handleManualSearch, lines 314-318
ApplyManualResult(base, name, t) ==
    [base EXCEPT !.productName = name, !.scannedAt = ToISOString(t)]

RemoveAt(seq, i) ==
    [j \in 1..(Len(seq) - 1) |-> IF j < i THEN seq[j] ELSE seq[j + 1]]

\* ------------------------------------------------------------------ init
StoredA ==
    [janCode |-> "A", productName |-> "Item A", quantity |-> 2,
     expiryDate |-> "2025-01-01", scannedAt |-> "T0"]

StoredB ==
    [janCode |-> "B", productName |-> "Item B", quantity |-> 1,
     expiryDate |-> "", scannedAt |-> "T0"]

\* lists a previous run can have left under the key (codes distinct)
InitialStores == { <<>>, <<StoredA>>, <<StoredA, StoredB>> }

InitialStorage ==
    {Absent, Corrupt, NonList} \cup {Stringify(s) : s \in InitialStores}

\* nothing was exported yet
NoDownload == [bom |-> <<>>, text |-> <<>>]

\* useState(null) of cameraError, line 54
NoCameraError == "null"

\* fetchProductName is not being called
NoCall == [state |-> "none"]

NoCallback ==
    [on |-> FALSE, currentProduct |-> EmptyProduct, codes |-> <<>>,
     lastScanTime |-> 0, apiKey |-> ""]

Init ==
    /\ phase = "mounted"
    /\ storage \in InitialStorage
    /\ queued = <<>>
    /\ products = <<>>
    /\ currentProduct = EmptyProduct
    /\ message = MsgWelcome
    /\ lastScanTime = 0
    /\ apiKey \in ApiKeys
    /\ scanning = FALSE
    /\ scanCb = NoCallback
    /\ pending = <<>>
    /\ clock = DebounceWindow
    /\ lastAcceptedCode = ""
    /\ storedKey = apiKey
    /\ download = NoDownload
    /\ cameraError = NoCameraError
    /\ scannerRef = 0
    /\ cameraHeld = {}
    /\ cameraCalls = <<>>
    /\ libraryLoaded = FALSE
    /\ fetchCall = NoCall
    /\ ops = 0

\* the component running on the list `prods` with the key `key`: nothing
\* typed, nothing in flight, the camera off
RunningOn(prods, key) ==
    /\ phase = "running"
    /\ storage = Stringify(prods)
    /\ queued = <<>>
    /\ products = prods
    /\ currentProduct = EmptyProduct
    /\ message = MsgWelcome
    /\ lastScanTime = 0
    /\ apiKey = key
    /\ scanning = FALSE
    /\ scanCb = NoCallback
    /\ pending = <<>>
    /\ clock = DebounceWindow
    /\ lastAcceptedCode = ""
    /\ storedKey = key
    /\ download = NoDownload
    /\ cameraError = NoCameraError
    /\ scannerRef = 0
    /\ cameraHeld = {}
    /\ cameraCalls = <<>>
    /\ libraryLoaded = FALSE
    /\ ops = 0

\* one handler run is counted; none starts once MaxOps have run
Counted == ops < MaxOps /\ ops' = ops + 1

\* --------------------------------------------------------------- startup
\* useEffect(load), lines 411-416.  JSON.parse throws on an unparsable
\* value; the effect has no try/catch, so the error reaches React, which
\* unmounts the tree.  Whether the save effect of the same commit still
\* runs after the throw depends on the React version: both are allowed.
LoadEffect ==
    /\ phase = "mounted"
    /\ UNCHANGED <<ops, camvars, iovars>>
    /\ UNCHANGED <<products, currentProduct, message, lastScanTime, apiKey,
                   scanning, scanCb, pending, clock, lastAcceptedCode>>
    /\ CASE storage.kind = "absent" ->
              /\ phase' = "loadRan"
              /\ UNCHANGED <<storage, queued>>
         [] storage.kind = "corrupt" ->
              /\ phase' = "crashed"
              /\ queued' = <<>>
              /\ storage' \in {storage, SaveEffect(products, products)}
         [] storage.kind = "nonlist" ->
              /\ phase' = "loadRan"
              /\ queued' = <<[isList |-> FALSE, list |-> <<>>]>>
              /\ UNCHANGED storage
         [] OTHER ->
              /\ phase' = "loadRan"
              /\ queued' = <<[isList |-> TRUE, list |-> ParseRows(storage.rows)]>>
              /\ UNCHANGED storage

\* useEffect(save) of the first commit, lines 419-421: products is still []
SaveEffectOnMount ==
    /\ phase = "loadRan"
    /\ UNCHANGED <<ops, camvars, iovars>>
    /\ storage' = SaveEffect(products, products)
    /\ phase' = "saveRan"
    /\ UNCHANGED <<queued, products, currentProduct, message, lastScanTime,
                   apiKey, scanning, scanCb, pending, clock, lastAcceptedCode>>

\* The re-render for the queued setProducts and the save effect after it.
\* Rendering a value that is not an array throws (products.map, line 684).
Rerender ==
    /\ phase = "saveRan"
    /\ UNCHANGED <<ops, camvars, iovars>>
    /\ queued' = <<>>
    /\ UNCHANGED <<currentProduct, message, lastScanTime, apiKey, scanning,
                   scanCb, pending, clock, lastAcceptedCode>>
    /\ IF queued = <<>>
       THEN /\ phase' = "running"
            /\ UNCHANGED <<products, storage>>
       ELSE IF queued[1].isList
       THEN /\ phase' = "running"
            /\ products' = queued[1].list
            /\ storage' = SaveEffect(products, products')
       ELSE /\ phase' = "crashed"
            /\ UNCHANGED <<products, storage>>

\* ----------------------------------------------------------- draft edits
\* manual code field, line 598
EditJanCode(c) ==
    /\ phase = "running"
    /\ Counted
    /\ UNCHANGED <<camvars, iovars>>
    /\ currentProduct' = [currentProduct EXCEPT !.janCode = c]
    /\ currentProduct' # currentProduct
    /\ UNCHANGED <<phase, storage, queued, products, message, lastScanTime,
                   apiKey, scanning, scanCb, pending, clock, lastAcceptedCode>>

\* name field, line 631
EditName(n) ==
    /\ phase = "running"
    /\ Counted
    /\ UNCHANGED <<camvars, iovars>>
    /\ currentProduct.janCode # ""
    /\ currentProduct' = [currentProduct EXCEPT !.productName = n]
    /\ currentProduct' # currentProduct
    /\ UNCHANGED <<phase, storage, queued, products, message, lastScanTime,
                   apiKey, scanning, scanCb, pending, clock, lastAcceptedCode>>

\* quantity field, line 642 (the form is rendered for a non-empty code only)
EditQuantity(typed) ==
    /\ phase = "running"
    /\ Counted
    /\ UNCHANGED <<camvars, iovars>>
    /\ currentProduct.janCode # ""
    /\ currentProduct' =
          [currentProduct EXCEPT
              !.quantity = OrOne(ParseInt(NumberInputValue(typed)))]
    /\ currentProduct' # currentProduct
    /\ UNCHANGED <<phase, storage, queued, products, message, lastScanTime,
                   apiKey, scanning, scanCb, pending, clock, lastAcceptedCode>>

\* expiry field, line 652
EditExpiry(d) ==
    /\ phase = "running"
    /\ Counted
    /\ UNCHANGED <<camvars, iovars>>
    /\ currentProduct.janCode # ""
    /\ currentProduct' = [currentProduct EXCEPT !.expiryDate = d]
    /\ currentProduct' # currentProduct
    /\ UNCHANGED <<phase, storage, queued, products, message, lastScanTime,
                   apiKey, scanning, scanCb, pending, clock, lastAcceptedCode>>

\* ------------------------------------------------------- store operations
\* addProduct, lines 331-362, with the save effect that follows a
\* setProducts.  `confirmed` is the answer window.confirm would give.  The
\* function is modelled for every draft; its button (line 657) is rendered
\* for a non-empty code only.
AddProduct(confirmed) ==
    /\ phase = "running"
    /\ Counted
    /\ UNCHANGED <<camvars, iovars>>
    /\ UNCHANGED <<phase, queued, lastScanTime, apiKey, scanning, scanCb,
                   pending, clock, lastAcceptedCode>>
    /\ IF InvalidDraft(currentProduct)
       THEN /\ message' = MsgScanFirst
            /\ UNCHANGED <<products, currentProduct, storage>>
       ELSE LET dup == FindIndex(products, currentProduct.janCode)
            IN  /\ dup = 0 => Len(products) < MaxProducts
                /\ products' = Upsert(products, currentProduct, confirmed)
                /\ message' = IF dup > 0
                              THEN IF confirmed THEN MsgUpdated ELSE message
                              ELSE MsgAdded
                /\ storage' = IF dup > 0 /\ ~confirmed
                              THEN storage
                              ELSE SaveEffect(products, products')
                /\ currentProduct' = EmptyProduct

\* deleteProduct, lines 403-408, with the save effect
DeleteProduct(idx, confirmed) ==
    /\ phase = "running"
    /\ Counted
    /\ UNCHANGED <<camvars, iovars>>
    /\ UNCHANGED <<phase, queued, currentProduct, lastScanTime, apiKey,
                   scanning, scanCb, pending, clock, lastAcceptedCode>>
    /\ IF confirmed
       THEN /\ products' = FilterOut(products, idx)
            /\ message' = MsgDeleted
            /\ storage' = SaveEffect(products, products')
       ELSE UNCHANGED <<products, message, storage>>

\* exportCSV, lines 365-400: the blob handed to the browser as a download
ExportCSV ==
    /\ phase = "running"
    /\ Counted
    /\ UNCHANGED <<camvars, storedKey, fetchCall>>
    /\ UNCHANGED <<phase, storage, queued, products, currentProduct,
                   lastScanTime, apiKey, scanning, scanCb, pending, clock,
                   lastAcceptedCode>>
    /\ IF Len(products) = 0
       THEN /\ message' = MsgNoData
            /\ UNCHANGED download
       ELSE /\ download' = [bom |-> Bom, text |-> CsvContent(products)]
            /\ message' = MsgExported

\* ------------------------------------------------------------ credential
\* saveApiKey(apiKey), lines 69-73, from the modal's button (line 459,
\* disabled while the field is empty)
SaveApiKey ==
    /\ phase = "running"
    /\ Counted
    /\ UNCHANGED <<camvars, download, fetchCall>>
    /\ apiKey # ""
    /\ storedKey' = apiKey
    /\ storedKey' # storedKey
    /\ UNCHANGED <<phase, storage, queued, products, currentProduct, message,
                   lastScanTime, apiKey, scanning, scanCb, pending, clock,
                   lastAcceptedCode>>

\* key field of the modal, line 447
TypeApiKey(k) ==
    /\ phase = "running"
    /\ Counted
    /\ UNCHANGED <<camvars, iovars>>
    /\ apiKey' = k
    /\ apiKey' # apiKey
    /\ UNCHANGED <<phase, storage, queued, products, currentProduct, message,
                   lastScanTime, scanning, scanCb, pending, clock,
                   lastAcceptedCode>>

\* ---------------------------------------------------------------- camera
\* Decoder instances (new Html5Qrcode, line 164) are numbered; an instance
\* nothing refers to any more is forgotten, and its number is used again.
DecodersInUse ==
    cameraHeld \cup {scannerRef}
        \cup {cameraCalls[i].target : i \in 1..Len(cameraCalls)}

HasFreeDecoder == \E d \in 1..MaxDecoders : d \notin DecodersInUse

NewDecoder ==
    CHOOSE d \in 1..MaxDecoders :
        /\ d \notin DecodersInUse
        /\ \A e \in 1..(d - 1) : e \in DecodersInUse

\* the values of cameraError that startCamera sets (lines 142, 216, 220)
ErrElement   == "scanner element not found"
ErrAllFailed == "camera could not be started"
ErrInit      == "scanner initialisation failed"

\* the handleScanSuccess of the present render, with what it closes over
Closure ==
    [on |-> TRUE, currentProduct |-> currentProduct,
     codes |-> CodesOf(products), lastScanTime |-> lastScanTime,
     apiKey |-> apiKey]

\* a state setter called after the component was unmounted does nothing
IfMounted(new, old) == IF phase = "running" THEN new ELSE old

\* decoder.start() is awaited (line 198) when the decoder exists and is
\* neither scanning nor being started; otherwise the call throws at once
\* (scannerRef.current is null, or the library refuses the state)
CanBegin(decoder, others) ==
    /\ decoder # 0
    /\ decoder \notin cameraHeld
    /\ \A j \in 1..Len(others) :
          ~(others[j].pc = "start" /\ others[j].target = decoder)

\* startCamera, lines 134-232, run to its end with no other camera call in
\* flight, when a camera starts: the decoder receives the handleScanSuccess
\* of the render whose button was clicked (line 201)
StartCamera ==
    /\ phase = "running"
    /\ Counted
    /\ UNCHANGED iovars
    /\ ~scanning
    /\ cameraCalls = <<>>
    /\ scannerRef = 0
    /\ HasFreeDecoder
    /\ cameraError' = NoCameraError
    /\ libraryLoaded' = TRUE
    /\ scannerRef' = NewDecoder
    /\ cameraHeld' = cameraHeld \cup {scannerRef'}
    /\ UNCHANGED cameraCalls
    /\ scanning' = TRUE
    /\ scanCb' = [on |-> TRUE, currentProduct |-> currentProduct,
                  codes |-> CodesOf(products), lastScanTime |-> lastScanTime,
                  apiKey |-> apiKey]
    /\ message' = MsgCameraOn
    /\ UNCHANGED <<phase, storage, queued, products, currentProduct,
                   lastScanTime, apiKey, pending, clock, lastAcceptedCode>>

\* stopCamera, lines 235-246, run to its end with no other camera call in
\* flight
StopCamera ==
    /\ phase = "running"
    /\ Counted
    /\ UNCHANGED iovars
    /\ scanning
    /\ cameraCalls = <<>>
    /\ scannerRef \in cameraHeld
    /\ cameraHeld' = cameraHeld \ {scannerRef}
    /\ scannerRef' = 0
    /\ UNCHANGED <<cameraError, cameraCalls, libraryLoaded>>
    /\ scanning' = FALSE
    /\ scanCb' = NoCallback
    /\ message' = MsgCameraOff
    /\ UNCHANGED <<phase, storage, queued, products, currentProduct,
                   lastScanTime, apiKey, pending, clock, lastAcceptedCode>>

\* ------------------------------------------- camera calls, step by step
\* A run of startCamera or stopCamera suspended at an await:
\*   pc "stopPrev"  startCamera at line 149, stopping the decoder `target`
\*   pc "load"      startCamera at line 161
\*   pc "start"     startCamera at line 198, starting the decoder `target`
\*                  with the access method number `method`
\*   pc "stop"      stopCamera at line 238, stopping the decoder `target`
\* `cb` is the handleScanSuccess the run closed over.
Suspended(pc, target, method, cb) ==
    [pc |-> pc, target |-> target, method |-> method, cb |-> cb]

\* startCamera from line 164 on, the library being loaded: the decoder is
\* created and the first access method is tried.  `others` are the other
\* runs in flight.
CreateAndStart(cb, others) ==
    /\ HasFreeDecoder
    /\ libraryLoaded' = TRUE
    /\ scannerRef' = NewDecoder
    /\ cameraCalls' = Append(others, Suspended("start", scannerRef', 1, cb))

\* startCamera from line 157 on; `ref` is scannerRef.current at that point.
\* An `await` of a library that is loaded is no point at which another
\* handler can run.
AfterCleanup(cb, others, ref) ==
    IF libraryLoaded
    THEN CreateAndStart(cb, others)
    ELSE /\ cameraCalls' = Append(others, Suspended("load", 0, 0, cb))
         /\ scannerRef' = ref
         /\ UNCHANGED libraryLoaded

\* the start button (line 532, shown while scanning is false): startCamera
\* up to its first await, lines 134-161
StartCameraCall(elementFound) ==
    /\ phase = "running"
    /\ Counted
    /\ UNCHANGED iovars
    /\ ~scanning
    /\ Len(cameraCalls) < MaxCalls
    /\ message' = MsgPreparing
    /\ UNCHANGED <<phase, storage, queued, products, currentProduct,
                   lastScanTime, apiKey, scanning, scanCb, pending, clock,
                   lastAcceptedCode, cameraHeld>>
    /\ IF ~elementFound
       THEN /\ cameraError' = ErrElement
            /\ UNCHANGED <<scannerRef, cameraCalls, libraryLoaded>>
       ELSE /\ cameraError' = NoCameraError
            /\ IF scannerRef \in cameraHeld
               THEN /\ cameraCalls' =
                          Append(cameraCalls,
                                 Suspended("stopPrev", scannerRef, 0, Closure))
                    /\ UNCHANGED <<scannerRef, libraryLoaded>>
               ELSE AfterCleanup(Closure, cameraCalls, scannerRef)

\* the script of the library is loaded, or fails to load (lines 117-121);
\* startCamera goes on from line 161 to its next await or to its end.
\* (Once the script was loaded, a second request for it is taken to load.)
LibraryLoads(i, ok) ==
    /\ phase \in {"running", "unmounted"}
    /\ i \in 1..Len(cameraCalls)
    /\ cameraCalls[i].pc = "load"
    /\ ok \/ ~libraryLoaded
    /\ UNCHANGED <<ops, iovars>>
    /\ UNCHANGED <<phase, storage, queued, products, currentProduct, message,
                   lastScanTime, apiKey, scanning, scanCb, pending, clock,
                   lastAcceptedCode, cameraHeld>>
    /\ IF ok
       THEN /\ CreateAndStart(cameraCalls[i].cb, RemoveAt(cameraCalls, i))
            /\ UNCHANGED cameraError
       ELSE /\ cameraError' = IfMounted(ErrInit, cameraError)
            /\ cameraCalls' = RemoveAt(cameraCalls, i)
            /\ UNCHANGED <<scannerRef, libraryLoaded>>

\* decoder.start() of an access method settles (line 198): on success the
\* session holds the camera (lines 205-207); on failure the next method is
\* tried on whatever scannerRef.current is by then, and when none is left
\* the error is set (line 216)
CameraMethodSettles(i, ok) ==
    /\ phase \in {"running", "unmounted"}
    /\ i \in 1..Len(cameraCalls)
    /\ cameraCalls[i].pc = "start"
    /\ UNCHANGED <<ops, iovars>>
    /\ UNCHANGED <<phase, storage, queued, products, currentProduct,
                   lastScanTime, apiKey, pending, clock, lastAcceptedCode,
                   scannerRef, libraryLoaded>>
    /\ LET call   == cameraCalls[i]
           others == RemoveAt(cameraCalls, i)
       IN  IF ok
           THEN /\ cameraHeld' = cameraHeld \cup {call.target}
                /\ scanCb' = call.cb
                /\ scanning' = IfMounted(TRUE, scanning)
                /\ message' = IfMounted(MsgCameraOn, message)
                /\ cameraCalls' = others
                /\ UNCHANGED cameraError
           ELSE /\ UNCHANGED <<cameraHeld, scanCb, scanning, message>>
                /\ IF call.method < NumMethods /\ CanBegin(scannerRef, others)
                   THEN /\ cameraCalls' =
                              [cameraCalls EXCEPT
                                  ![i] = Suspended("start", scannerRef,
                                                   call.method + 1, call.cb)]
                        /\ UNCHANGED cameraError
                   ELSE /\ cameraCalls' = others
                        /\ cameraError' = IfMounted(ErrAllFailed, cameraError)

\* the stop button (line 532, shown while scanning is true): stopCamera up
\* to its await, lines 235-238.  decoder.stop() throws when the decoder is
\* not scanning; the catch (line 242) only logs.
StopCameraCall ==
    /\ phase = "running"
    /\ Counted
    /\ UNCHANGED iovars
    /\ scanning
    /\ Len(cameraCalls) < MaxCalls
    /\ cameraCalls' = IF scannerRef \in cameraHeld
                      THEN Append(cameraCalls,
                                  Suspended("stop", scannerRef, 0, NoCallback))
                      ELSE cameraCalls
    /\ UNCHANGED <<phase, storage, queued, products, currentProduct, message,
                   lastScanTime, apiKey, scanning, scanCb, pending, clock,
                   lastAcceptedCode, cameraError, scannerRef, cameraHeld,
                   libraryLoaded>>

\* an awaited decoder.stop() resolves: the camera is released, and the
\* run goes on: stopCamera with lines 239-241, startCamera with line 150
\* and on to its next await
StopResolves(i) ==
    /\ phase \in {"running", "unmounted"}
    /\ i \in 1..Len(cameraCalls)
    /\ cameraCalls[i].pc \in {"stop", "stopPrev"}
    /\ UNCHANGED <<ops, iovars>>
    /\ UNCHANGED <<phase, storage, queued, products, currentProduct,
                   lastScanTime, apiKey, pending, clock, lastAcceptedCode,
                   cameraError>>
    /\ cameraHeld' = cameraHeld \ {cameraCalls[i].target}
    /\ scanCb' = IF cameraHeld' = {} THEN NoCallback ELSE scanCb
    /\ IF cameraCalls[i].pc = "stop"
       THEN /\ scannerRef' = 0
            /\ scanning' = IfMounted(FALSE, scanning)
            /\ message' = IfMounted(MsgCameraOff, message)
            /\ cameraCalls' = RemoveAt(cameraCalls, i)
            /\ UNCHANGED libraryLoaded
       ELSE /\ AfterCleanup(cameraCalls[i].cb, RemoveAt(cameraCalls, i), 0)
            /\ UNCHANGED <<scanning, message>>

\* the component is unmounted: the cleanup of lines 424-430 stops the
\* decoder scannerRef.current refers to, if it is scanning
Unmount ==
    /\ phase = "running"
    /\ Counted
    /\ UNCHANGED iovars
    /\ phase' = "unmounted"
    /\ cameraHeld' = cameraHeld \ {scannerRef}
    /\ scanCb' = IF cameraHeld' = {} THEN NoCallback ELSE scanCb
    /\ UNCHANGED <<storage, queued, products, currentProduct, message,
                   lastScanTime, apiKey, scanning, pending, clock,
                   lastAcceptedCode, cameraError, scannerRef, cameraCalls,
                   libraryLoaded>>

\* ------------------------------------------------------------ scan events
\* The debounce test of handleScanSuccess, lines 251-254, on the
\* lastScanTime the handler reads.
DebouncedNever(now, last) == FALSE

Debounced(now, last) == now - last < DebounceWindow

\* handleScanSuccess, lines 249-295, up to its await (or to its end when
\* fetchProductName resolves without a request)
DecoderEvent(c) ==
    /\ phase = "running"
    /\ Counted
    /\ UNCHANGED <<camvars, iovars>>
    /\ scanCb.on
    /\ ~Debounced(clock, scanCb.lastScanTime)
    /\ lastScanTime' = clock
    /\ lastAcceptedCode' = c
    /\ UNCHANGED <<phase, storage, queued, products, apiKey, scanning,
                   scanCb, clock>>
    /\ IF scanCb.apiKey = ""
       THEN /\ currentProduct' =
                  ApplyScanResult(scanCb.currentProduct, c,
                                  UnsetPlaceholder(c), clock)
            /\ message' = IF IsDuplicate(scanCb.codes, c)
                          THEN MsgDuplicate ELSE MsgFound
            /\ UNCHANGED pending
       ELSE /\ Len(pending) < MaxPending
            /\ currentProduct' = [scanCb.currentProduct EXCEPT !.janCode = c]
            /\ message' = MsgSearching
            /\ pending' = Append(pending,
                  [origin |-> "scan", code |-> c,
                   base |-> scanCb.currentProduct,
                   isDuplicate |-> IsDuplicate(scanCb.codes, c)])

\* a decoder event the debounce test discards (line 253)
DecoderEventDiscarded(c) ==
    /\ phase = "running"
    /\ Counted
    /\ UNCHANGED <<camvars, iovars>>
    /\ scanCb.on
    /\ Debounced(clock, scanCb.lastScanTime)
    /\ UNCHANGED pvars

\* handleManualSearch, lines 303-328, up to its await (or to its end)
ManualSearch ==
    /\ phase = "running"
    /\ Counted
    /\ UNCHANGED <<camvars, iovars>>
    /\ UNCHANGED <<phase, storage, queued, products, lastScanTime, apiKey,
                   scanning, scanCb, clock, lastAcceptedCode>>
    /\ IF currentProduct.janCode = ""
       THEN /\ message' = MsgEnterCode
            /\ UNCHANGED <<currentProduct, pending>>
       ELSE IF apiKey = ""
       THEN /\ currentProduct' =
                  ApplyManualResult(currentProduct,
                      UnsetPlaceholder(currentProduct.janCode), clock)
            /\ message' = IF IsDuplicate(CodesOf(products),
                                         currentProduct.janCode)
                          THEN MsgDuplicate ELSE MsgFound
            /\ UNCHANGED pending
       ELSE /\ Len(pending) < MaxPending
            /\ message' = MsgSearching
            /\ pending' = Append(pending,
                  [origin |-> "manual", code |-> currentProduct.janCode,
                   base |-> currentProduct,
                   isDuplicate |-> IsDuplicate(CodesOf(products),
                                               currentProduct.janCode)])
            /\ UNCHANGED currentProduct

\* The awaited lookup of pending[i] resolves and its handler runs to its
\* end (lines 278-291 / 312-324) on the values it captured.
ResumeAfterLookup(i, outcome) ==
    /\ phase = "running"
    /\ UNCHANGED <<camvars, iovars>>
    /\ i \in 1..Len(pending)
    /\ LET e    == pending[i]
           name == ResponseName(e.code, outcome)
       IN  /\ currentProduct' =
                 IF e.origin = "scan"
                 THEN ApplyScanResult(e.base, e.code, name, clock)
                 ELSE ApplyManualResult(e.base, name, clock)
           /\ message' = IF e.isDuplicate THEN MsgDuplicate ELSE MsgFound
    /\ pending' = RemoveAt(pending, i)
    /\ UNCHANGED <<phase, storage, queued, products, lastScanTime, apiKey,
                   scanning, scanCb, clock, lastAcceptedCode>>

\* the resumption as one of the MaxOps steps explored
LookupComplete(i, outcome) == Counted /\ ResumeAfterLookup(i, outcome)

\* the resumption of a handler run that was counted when it started
LookupCompleteLive(i, outcome) == UNCHANGED ops /\ ResumeAfterLookup(i, outcome)

\* ------------------------------------------------------------------ time
Tick ==
    /\ phase = "running"
    /\ Counted
    /\ UNCHANGED <<camvars, iovars>>
    /\ clock < DebounceWindow + MaxTicks * (DebounceWindow \div 2)
    /\ clock' = clock + DebounceWindow \div 2
    /\ UNCHANGED <<phase, storage, queued, products, currentProduct, message,
                   lastScanTime, apiKey, scanning, scanCb, pending,
                   lastAcceptedCode>>

\* ------------------------------------------------------------------ next
Next ==
    \/ LoadEffect
    \/ SaveEffectOnMount
    \/ Rerender
    \/ \E c \in TypedCodes : EditJanCode(c)
    \/ \E n \in TypedNames : EditName(n)
    \/ \E q \in QuantityTexts : EditQuantity(q)
    \/ \E d \in Expiries : EditExpiry(d)
    \/ \E b \in BOOLEAN : AddProduct(b)
    \/ \E i \in 1..(MaxProducts + 1), b \in BOOLEAN : DeleteProduct(i, b)
    \/ ExportCSV
    \/ \E k \in ApiKeys : TypeApiKey(k)
    \/ SaveApiKey
    \/ StartCamera
    \/ StopCamera
    \/ \E c \in Codes : DecoderEvent(c)
    \/ \E c \in Codes : DecoderEventDiscarded(c)
    \/ ManualSearch
    \/ \E i \in 1..MaxPending, o \in Responses : LookupComplete(i, o)
    \/ Tick

Spec == Init /\ [][Next]_vars

\* The manual intake alone, with every kind of text typed into the code and
\* the quantity field.
NextEntry ==
    \/ LoadEffect
    \/ SaveEffectOnMount
    \/ Rerender
    \/ \E c \in TypedTexts : EditJanCode(c)
    \/ \E q \in TypedQuantityTexts : EditQuantity(q)
    \/ \E b \in BOOLEAN : AddProduct(b)
    \/ ManualSearch
    \/ \E i \in 1..MaxPending, o \in Responses : LookupComplete(i, o)

SpecEntry == Init /\ [][NextEntry]_vars

\* ------------------------------------------------- intake by the decoder
\* Scans, typed codes, searches and commits, with every lookup that was started completing:
\* a request ends (C16 gives the completion of fetchProductName for every
\* way it can end), and the handler suspended on it then resumes.
NextLive ==
    \/ LoadEffect
    \/ SaveEffectOnMount
    \/ Rerender
    \/ StartCamera
    \/ \E c \in Codes : DecoderEvent(c)
    \/ \E c \in TypedCodes : EditJanCode(c)
    \/ ManualSearch
    \/ \E b \in BOOLEAN : AddProduct(b)
    \/ \E i \in 1..MaxPending, o \in Responses : LookupCompleteLive(i, o)

\* started on nothing persisted, or on one record
InitLive == Init /\ storage \in {Absent, Stringify(<<StoredA>>)}

SpecLive ==
    /\ InitLive
    /\ [][NextLive]_vars
    /\ \A i \in 1..MaxPending :
          WF_vars(\E o \in Responses : LookupCompleteLive(i, o))

\* ------------------------------------------------------ the camera button
\* Camera calls that overlap, unmounting, and the manual way into the store
\* beside them.
InitCamera ==
    /\ \E prods \in {<<>>, <<StoredA>>} : RunningOn(prods, "")
    /\ fetchCall = NoCall

NextCamera ==
    \/ \E found \in BOOLEAN : StartCameraCall(found)
    \/ \E i \in 1..MaxCalls, ok \in BOOLEAN : LibraryLoads(i, ok)
    \/ \E i \in 1..MaxCalls, ok \in BOOLEAN : CameraMethodSettles(i, ok)
    \/ StopCameraCall
    \/ \E i \in 1..MaxCalls : StopResolves(i)
    \/ Unmount
    \/ \E c \in TypedCodes : EditJanCode(c)
    \/ ManualSearch
    \/ \E b \in BOOLEAN : AddProduct(b)

SpecCamera == InitCamera /\ [][NextCamera]_vars

\* ------------------------------------------------------ exportCSV, alone
\* records as lookups, edits and earlier runs can have left them: names
\* with a comma, with a double quote, with a line break
ExportRecords ==
    [janCode : Codes,
     productName : {"Sample, Item", "5" \o Quote \o " disc", TwoLineName},
     quantity : {1, 2},
     expiryDate : {"2025-01-01"},
     scannedAt : {"T0"}]

\* the stores of at most two such records, with distinct codes
ExportStores ==
    {<<>>} \cup {<<r>> : r \in ExportRecords}
           \cup {<<p[1], p[2]>> :
                    p \in {q \in ExportRecords \X ExportRecords :
                              q[1].janCode # q[2].janCode}}

InitExport ==
    /\ \E prods \in ExportStores : RunningOn(prods, "")
    /\ fetchCall = NoCall

NextExport == ExportCSV

SpecExport == InitExport /\ [][NextExport]_vars

\* ----------------------------------------------- fetchProductName, alone
\* every call of fetchProductName: the key, the code and what the remote
\* call would end in
FetchCalls ==
    [state : {"called"}, key : ApiKeys, code : TypedTexts \ {""},
     outcome : Outcomes]

InitLookup ==
    /\ RunningOn(<<>>, "")
    /\ fetchCall \in FetchCalls

\* the call completes: its promise is fulfilled or rejected
FetchProductNameCompletes ==
    /\ fetchCall.state = "called"
    /\ LET end == FetchProductName(fetchCall.key, fetchCall.code,
                                   fetchCall.outcome)
       IN  fetchCall' =
              [state |-> IF end.raised THEN "rejected" ELSE "fulfilled",
               key |-> fetchCall.key, code |-> fetchCall.code,
               outcome |-> fetchCall.outcome, value |-> end.value,
               requested |-> end.requested]
    /\ UNCHANGED <<phase, storage, queued, products, currentProduct, message,
                   lastScanTime, apiKey, scanning, scanCb, pending, clock,
                   lastAcceptedCode, camvars, storedKey, download, ops>>

NextLookup == FetchProductNameCompletes

SpecLookup == InitLookup /\ [][NextLookup]_vars

\* ================================================================ claims
HasCode(prods, code) == \E i \in 1..Len(prods) : prods[i].janCode = code

\* String.prototype.trim on the texts of the model
Trim(text) ==
    IF \E c \in Codes \cup {""} : text = Padded(c)
    THEN CHOOSE c \in Codes \cup {""} : text = Padded(c)
    ELSE text

Normalized(code) == code # "" /\ Trim(code) = code

\* C1: no two records of the products list have the same code, in every
\* state reached from an empty store or one loaded with distinct codes.
UniqueCodes ==
    \A i, j \in 1..Len(products) :
        i # j => products[i].janCode # products[j].janCode

\* two records, the second committed in this run after a decoder scan
UniqueCodesWitness ==
    /\ Len(products) >= 2
    /\ message = MsgAdded
    /\ lastAcceptedCode # ""

\* C2: the result of a lookup for a code A that arrives after a scan event
\* for another code B (whose own lookup is still in flight, the draft's code
\* being B) leaves the draft as it is.  (One of the two scan events is a
\* manual search, which no debounce applies to.)
StaleResponseGuard ==
    [][\A i \in 1..Len(pending) :
          ( /\ \E o \in Responses : LookupComplete(i, o)
            /\ \E j \in (i + 1)..Len(pending) :
                  /\ pending[j].code = currentProduct.janCode
                  /\ pending[j].code # pending[i].code
                  /\ "manual" \in {pending[i].origin, pending[j].origin} )
          => currentProduct' = currentProduct]_vars

\* C3: a commit of a draft whose code is in the store, with the overwrite
\* declined, leaves the store and the draft as they were.  (The draft has a
\* name, so that the step is no clearing of the code field.)
DeclinedOverwriteNoOp ==
    [][( /\ AddProduct(FALSE)
         /\ HasCode(products, currentProduct.janCode)
         /\ currentProduct.productName # "" )
          => /\ products' = products
             /\ currentProduct' = currentProduct]_vars

\* C4: a commit of a draft whose non-empty code is not in the store appends
\* the draft as the last record, keeps the earlier records in place, and the
\* list persisted under the key equals the new in-memory list.
CommitNewAppends ==
    [][( /\ \E b \in BOOLEAN : AddProduct(b)
         /\ currentProduct.janCode # ""
         /\ ~HasCode(products, currentProduct.janCode) )
          => /\ Len(products') = Len(products) + 1
             /\ products'[Len(products')] = currentProduct
             /\ \A i \in 1..Len(products) : products'[i] = products[i]
             /\ storage'.kind = "array"
             /\ ParseRows(storage'.rows) = products']_vars

\* a record appended behind an earlier one, and persisted
CommitNewAppendsWitness ==
    /\ message = MsgAdded
    /\ Len(products) >= 2
    /\ currentProduct = EmptyProduct
    /\ storage.kind = "array"
    /\ Len(storage.rows) = Len(products)

\* C5: a commit of a draft whose code is in the store at index i, with the
\* overwrite accepted, keeps the length, puts the draft at index i and leaves
\* every other record where it was.
ConfirmedOverwriteInPlace ==
    [][(AddProduct(TRUE) /\ HasCode(products, currentProduct.janCode))
          => /\ Len(products') = Len(products)
             /\ \A i \in 1..Len(products) :
                   products'[i] =
                      IF products[i].janCode = currentProduct.janCode
                      THEN currentProduct
                      ELSE products[i]]_vars

\* the second of two records was overwritten by a draft
ConfirmedOverwriteWitness ==
    /\ message = MsgUpdated
    /\ Len(products) = 2
    /\ products[1] = StoredA
    /\ products[2].janCode = "B"
    /\ products[2] # StoredB

\* C6: a decoder event for the code of the previous accepted decoder event
\* is discarded when it comes less than the window after it, and accepted
\* when it comes more than the window after it.  (lastScanTime is the time
\* of the previous accepted event, line 255.)
DebounceHolds ==
    [][\A c \in Codes :
          /\ ( /\ lastAcceptedCode = c
               /\ clock - lastScanTime < DebounceWindow ) => ~DecoderEvent(c)
          /\ ( /\ lastAcceptedCode = c
               /\ clock - lastScanTime > DebounceWindow )
                  => ~DecoderEventDiscarded(c)]_vars

\* C7: once the component runs, the list persisted under the key equals
\* the in-memory list, record for record and in order.
DurableEqualsMemory ==
    phase = "running"
        => /\ storage.kind = "array"
           /\ ParseRows(storage.rows) = products

\* after a confirmed delete that left a record
DurableEqualsMemoryWitness ==
    /\ phase = "running"
    /\ message = MsgDeleted
    /\ Len(products) >= 1
    /\ Len(storage.rows) = Len(products)

\* C8: a persisted value that cannot be deserialised into a list leaves the
\* component running with an empty list.
CorruptStorageRecovered ==
    [][( \/ phase = "mounted" /\ storage.kind = "corrupt"
         \/ phase = "saveRan" /\ queued # <<>> /\ ~queued[1].isList )
          => /\ phase' # "crashed"
             /\ products' = <<>>]_vars

\* C9: a commit while the draft's code is empty sets the instructional
\* message and changes neither the store, the persisted list nor the draft.
EmptyCommitRejected ==
    [][( /\ \E b \in BOOLEAN : AddProduct(b)
         /\ currentProduct.janCode = "" )
          => /\ message' = MsgScanFirst
             /\ products' = products
             /\ storage' = storage
             /\ currentProduct' = currentProduct]_vars

\* the rejection, with records in the store
EmptyCommitWitness ==
    /\ message = MsgScanFirst
    /\ currentProduct.janCode = ""
    /\ Len(products) >= 1

\* C10: a confirmed delete of position idx of the store removes that record
\* and keeps the others in order; a declined delete, or one of a position
\* the store does not have, leaves the store as it was.
RemovalExact ==
    [][\A idx \in 1..(MaxProducts + 1), b \in BOOLEAN :
          DeleteProduct(idx, b)
          => IF b /\ idx <= Len(products)
             THEN /\ Len(products') = Len(products) - 1
                  /\ \A j \in 1..(idx - 1) : products'[j] = products[j]
                  /\ \A j \in idx..Len(products') :
                        products'[j] = products[j + 1]
             ELSE products' = products]_vars

\* the first of two loaded records was removed, the second is kept
RemovalWitness ==
    /\ message = MsgDeleted
    /\ products = <<StoredB>>
    /\ storage.kind = "array"
    /\ Len(storage.rows) = 1

\* C11: no lookup is in flight for, and no record of the store has, a code
\* that is empty, consists of blanks, or has a blank in front or behind.
CodesNormalized ==
    /\ \A i \in 1..Len(pending) : Normalized(pending[i].code)
    /\ \A i \in 1..Len(products) : Normalized(products[i].janCode)

\* C12: the draft's quantity and the quantity of every record of the store
\* are integers of at least 1, whatever is typed into the quantity field.
QuantityAtLeastOne ==
    /\ currentProduct.quantity \in Nat \ {0}
    /\ \A i \in 1..Len(products) : products[i].quantity \in Nat \ {0}

\* a handler applies a lookup result to the draft in this step
ResultApplied ==
    \/ \E i \in 1..MaxPending, o \in Responses : LookupComplete(i, o)
    \/ \E c \in Codes : DecoderEvent(c) /\ scanCb.apiKey = ""
    \/ ManualSearch /\ currentProduct.janCode # "" /\ apiKey = ""

\* C13: when a lookup result is applied to the draft, the duplicate warning
\* is shown exactly when the store holds a record with the draft's code, and
\* the store is left as it was.
DuplicateWarningExact ==
    [][ResultApplied
          => /\ message' = MsgDuplicate
                   <=> HasCode(products, currentProduct'.janCode)
             /\ products' = products]_vars

\* C14: when the result of a lookup for the draft's present code is applied,
\* the draft's name becomes the result and scannedAt is set, and the draft's
\* code, quantity and expiry keep the values they had just before.
LookupKeepsEdits ==
    [][\A i \in 1..Len(pending), o \in Responses :
          ( /\ LookupComplete(i, o)
            /\ pending[i].code = currentProduct.janCode )
          => /\ currentProduct'.productName = ResponseName(pending[i].code, o)
             /\ currentProduct'.scannedAt # ""
             /\ currentProduct'.janCode = currentProduct.janCode
             /\ currentProduct'.quantity = currentProduct.quantity
             /\ currentProduct'.expiryDate = currentProduct.expiryDate]_vars

\* C15: while the component runs, the store grows only in a commit, shrinks
\* only in a confirmed delete and has a record replaced only in a commit
\* whose overwrite was confirmed; every other step (scan events, lookup
\* completions, manual searches, draft edits, camera start and stop, key
\* changes, CSV export) leaves the store and its persisted copy as they were.
StoreChangesOnlyByCommitOrDelete ==
    [][phase = "running"
          => /\ Len(products') > Len(products)
                   => \E b \in BOOLEAN : AddProduct(b)
             /\ Len(products') < Len(products)
                   => \E i \in 1..Len(products) : DeleteProduct(i, TRUE)
             /\ (Len(products') = Len(products) /\ products' # products)
                   => AddProduct(TRUE)
             /\ products' = products => storage' = storage]_vars

\* an export and a scan were made on a store that still has its two records
StoreFrameWitness ==
    /\ products = <<StoredA, StoredB>>
    /\ download # NoDownload
    /\ lastAcceptedCode # ""
    /\ currentProduct.janCode # ""

\* C16: every call of fetchProductName is fulfilled with a text and never
\* rejected; with no key it makes no request and gives the placeholder with
\* the code; with a key it gives the name on a match with a name, and a
\* placeholder with the code otherwise (failed request, status not ok, body
\* that is no JSON, no match, body without the fields, empty name).
LookupNeverRaises ==
    fetchCall.state \notin {"none", "called"}
        => /\ fetchCall.state = "fulfilled"
           /\ fetchCall.value \in STRING
           /\ fetchCall.requested <=> fetchCall.key # ""
           /\ LET c == fetchCall.code
                   o == fetchCall.outcome
               IN  fetchCall.value =
                     CASE fetchCall.key = "" -> "API key unset (" \o c \o ")"
                       [] o = "hit" -> "Item " \o c
                       [] o = "emptyName" -> "name not registered(" \o c \o ")"
                       [] o \in {"noMatch", "noFields"} ->
                             "no product info(" \o c \o ")"
                       [] o = "httpError" -> "search error(" \o c \o "): status"
                       [] o = "networkError" -> "search error(" \o c \o "): fetch"
                       [] OTHER -> "search error(" \o c \o "): json"

\* a call with a key whose response body was no JSON has completed
LookupNeverRaisesWitness ==
    /\ fetchCall.state = "fulfilled"
    /\ fetchCall.key # ""
    /\ fetchCall.outcome = "badJson"

\* a handleScanSuccess run for the code c is suspended on its lookup
ScanAwaiting(c) ==
    \E i \in 1..Len(pending) :
        pending[i].origin = "scan" /\ pending[i].code = c

\* the draft holds the code c, a name a lookup for c gives, and a scan time
DraftReady(c) ==
    /\ currentProduct.janCode = c
    /\ currentProduct.productName \in
          {ResponseName(c, o) : o \in Outcomes} \cup {UnsetPlaceholder(c)}
    /\ currentProduct.scannedAt # ""

\* C17: with every started lookup completing, an accepted decoder event
\* for the code c leads to a draft with the code c, the name the lookup gave
\* (or its placeholder) and scannedAt set: at once when the handler has no
\* key, and eventually when it waits for the request, failed or not.
ScanLeadsToDraftReady ==
    /\ \A c \in Codes : ScanAwaiting(c) ~> DraftReady(c)
    /\ [][\A c \in Codes :
             (DecoderEvent(c) /\ scanCb.apiKey = "") => DraftReady(c)']_vars

\* the draft of a scan of A whose request failed
ScanLeadsToDraftReadyWitness ==
    /\ lastAcceptedCode = "A"
    /\ pending = <<>>
    /\ currentProduct.janCode = "A"
    /\ currentProduct.productName = ResponseName("A", "networkError")
    /\ currentProduct.scannedAt # ""

\* C18: no step leaves two decoder sessions holding the camera; when a
\* stopCamera run completes no session holds it; and once the component is
\* unmounted and every camera call has run to its end no session holds it.
CameraReleased ==
    [][/\ Cardinality(cameraHeld') <= 1
       /\ (\E i \in 1..Len(cameraCalls) :
               StopResolves(i) /\ cameraCalls[i].pc = "stop")
             => cameraHeld' = {}
       /\ (phase' = "unmounted" /\ cameraCalls' = <<>>)
             => cameraHeld' = {}]_vars

\* a run of startCamera ends without a camera in this step
StartCameraFails ==
    \/ StartCameraCall(FALSE)
    \/ \E i \in 1..Len(cameraCalls) : LibraryLoads(i, FALSE)
    \/ \E i \in 1..Len(cameraCalls) :
          CameraMethodSettles(i, FALSE) /\ Len(cameraCalls') < Len(cameraCalls)

\* C19: when a run of startCamera fails (no scanner element, the library
\* does not load, every access method is rejected), a camera error is set,
\* the store and the draft are as before, and scanning is false.  (That
\* the manual handlers then still add a record is a reachability, which the
\* steps of EditJanCode, ManualSearch and AddProduct in this specification
\* show; none of them reads cameraError.)
StartFailureDegradesGracefully ==
    [][(phase = "running" /\ StartCameraFails)
          => /\ cameraError' # NoCameraError
             /\ products' = products
             /\ storage' = storage
             /\ currentProduct' = currentProduct
             /\ scanning' = FALSE]_vars

\* the lines of a text, after one more piece of it
AfterPiece(lines, piece, sep) ==
    IF piece = sep THEN Append(lines, <<>>)
    ELSE [lines EXCEPT ![Len(lines)] = Append(@, piece)]

\* String.prototype.split(sep) of a text
Split(text, sep) ==
    LET F[n \in 0..Len(text)] ==
            IF n = 0 THEN << <<>> >>
            ELSE AfterPiece(F[n - 1], text[n], sep)
    IN  F[Len(text)]

HeaderLine ==
    <<"JAN code", ",", "name", ",", "quantity", ",", "expiry", ",",
      "scanned at">>

\* code, name in double quotes, quantity, expiry, scan time
RecordLine(r) ==
    <<r.janCode, ",", Quote, r.productName, Quote, ",", ToString(r.quantity),
      ",", r.expiryDate, ",", r.scannedAt>>

OneLinePerRecord(text, prods) ==
    LET lines == Split(text, LineBreak)
    IN  /\ Len(lines) = Len(prods) + 1
        /\ lines[1] = HeaderLine
        /\ \A i \in 1..Len(prods) : lines[i + 1] = RecordLine(prods[i])

HasLineBreak(value) == \E k \in 1..Len(Pieces(value)) : Pieces(value)[k] = LineBreak

ClearedByCommit ==
    /\ currentProduct = EmptyProduct
    /\ message \in {MsgAdded, MsgUpdated}

\* a scan event, or an entry in the draft's code or name field
NewIntake ==
    \/ \E c \in Codes : DecoderEvent(c)
    \/ \E c \in TypedCodes : EditJanCode(c)
    \/ \E n \in TypedNames : EditName(n)

\* C21: a draft that a commit cleared keeps its code, name and scan time
\* empty in every step that is not a new scan event or a manual entry; the
\* completion of a lookup started before the commit is such a step.
ClearedDraftStaysCleared ==
    [][(ClearedByCommit /\ ~NewIntake)
          => /\ currentProduct'.janCode = ""
             /\ currentProduct'.productName = ""
             /\ currentProduct'.scannedAt = ""]_vars

\* the load effect, the save effect of the first commit, the re-render
StartupStep == LoadEffect \/ SaveEffectOnMount \/ Rerender

\* every record of the stored value `old` is in the stored value `new`
KeepsRecords(old, new) ==
    \A i \in 1..Len(old.rows) :
        /\ new.kind = "array"
        /\ \E j \in 1..Len(new.rows) : new.rows[j] = old.rows[i]

\* C22: no step of the startup (load effect, save effect, re-render) takes
\* a record out of the value stored under the key, so that until the
\* component runs the stored value holds every record persisted before.
StartupKeepsRecords ==
    [][(StartupStep /\ storage.kind = "array")
          => KeepsRecords(storage, storage')]_vars

\* a lookup for the code c starts: a decoder scan event, or a manual search
LookupStarts(c) ==
    \/ DecoderEvent(c)
    \/ ManualSearch /\ currentProduct.janCode = c

\* a non-empty credential is saved, and it is the one the component holds
CredentialSaved == storedKey # "" /\ apiKey = storedKey

\* C23: once a non-empty credential is saved, a lookup started by a scan
\* event or a manual search does not give the "credential not configured"
\* placeholder, whenever the camera session was started.
LookupsUseCurrentCredential ==
    [][\A c \in Codes :
          (LookupStarts(c) /\ CredentialSaved)
             => currentProduct'.productName # UnsetPlaceholder(c)]_vars
====
